---- MODULE Spec2Model ----
(***************************************************************************)
(* The LandCoverNet download notebook                                      *)
(* (src/notebooks/radiant-mlhub-landcovernet.ipynb): the recursive catalog *)
(* walk get_items, the item expansion download_source_and_labels with its  *)
(* pooled get_source_item_assets workers, and the download loop            *)
(*     for d in to_download: p.map(download, d).                            *)
(*                                                                         *)
(* The catalog service, the redirect endpoint and the storage backends are *)
(* the environment.  What the service holds (listing pages, sub-item       *)
(* documents, redirect targets) is the variable world, fixed by Init; what *)
(* a single request does (answer, time out, answer 500) is chosen when the *)
(* request is made.                                                        *)
(***************************************************************************)
EXTENDS Integers, Sequences, FiniteSets, TLC

VARIABLES
    world,                  \* what the catalog service holds
    workers,                \* the number of worker threads of the pool p
    omit_downloads,         \* the cells call get_items without downloads=
    calls,                  \* top-level get_items calls made so far
    classes,                \* get_items argument classes
    max_items_downloaded,   \* get_items argument max_items_downloaded
    stack,                  \* the active get_items calls, outermost first
    downloads,              \* the accumulator list (one object, shared by all calls)
    dirs,                   \* directories on the local filesystem
    files,                  \* files written by the fetchers
    pool,                   \* the p.map job in progress on the ThreadPool p
    di,                     \* position of the download loop in to_download
    pc,                     \* position of the main thread
    error,                  \* the exception that ended the run, "" if none
    fetches,                \* history: page URIs requested, in order
    expanded,               \* history: ids passed to download_source_and_labels
    last_filter,            \* history: the latest filter decision
    last_expand             \* history: the latest completed expansion

vars == <<world, workers, omit_downloads, calls, classes, max_items_downloaded, stack, downloads, dirs, files,
          pool, di, pc, error, fetches, expanded, last_filter, last_expand>>

(***************************************************************************)
(* Bounds of the model.                                                    *)
(***************************************************************************)
MaxPages == 2
MaxFeatures == 2
MaxCap == 2
MaxAssets == 2
MaxWorkers == 2
MaxCalls == 2

(***************************************************************************)
(* Program constant: p = ThreadPool(20).                                   *)
(***************************************************************************)
PoolSize == 20

SeqUpTo(S, n) == UNION {[1..k -> S] : k \in 0..n}

RECURSIVE Flatten(_)
Flatten(ss) == IF ss = <<>> THEN <<>> ELSE Head(ss) \o Flatten(Tail(ss))

Last(s) == s[Len(s)]

(***************************************************************************)
(* Python values.  None and an absent mapping key are flags of a record,   *)
(* so that values of one field always have one shape.                      *)
(***************************************************************************)
PyNone == [is_none |-> TRUE, val |-> {}]
PySet(S) == [is_none |-> FALSE, val |-> S]
NoCap == [is_none |-> TRUE, val |-> 0]
Cap(k) == [is_none |-> FALSE, val |-> k]
KeyAbsent == [present |-> FALSE, val |-> <<>>]
KeyPresent(v) == [present |-> TRUE, val |-> v]

\* A link of a page or of an item.  null marks a JSON null href.
Link(rel, href) == [rel |-> rel, href |-> href, null |-> FALSE]
NullLink(rel) == [rel |-> rel, href |-> 0, null |-> TRUE]

(***************************************************************************)
(* The catalog.                                                            *)
(***************************************************************************)
ItemId(p, i) == "item_" \o ToString(p) \o "_" \o ToString(i)
LabelsHref(id) == "labels_of_" \o id

Item(id, labels, links, has_labels_asset) ==
    [id |-> id,
     labels |-> labels,
     links |-> links,
     assets_labels |-> IF has_labels_asset
                       THEN [present |-> TRUE, href |-> LabelsHref(id)]
                       ELSE [present |-> FALSE, href |-> ""]]

Page(features, links) == [features |-> features, links |-> links]

\* A sub-item document: its capture time and its assets.
AssetKeys == <<"B02", "B03", "B04", "B08">>
SubDoc(href, datetime, n) ==
    [datetime |-> datetime,
     assets |-> [k \in 1..n |-> [key |-> AssetKeys[k],
                                 href |-> href \o "_" \o AssetKeys[k]]]]

DateTime(y, m, d, t) == [year |-> y, month |-> m, day |-> d, time |-> t]
Morning == DateTime("2018", "01", "01", "10:00")
SameDay == DateTime("2018", "01", "01", "15:30")
NextDay == DateTime("2018", "01", "06", "10:00")

\* A redirect target, as urlparse splits it: path holds the segments of
\* path.split('/'), the first of them the empty string before the leading '/'.
Target(scheme, netloc, path) == [scheme |-> scheme, netloc |-> netloc, path |-> path]
NoTarget == Target("", "", <<>>)
S3Target == Target("s3", "bucket", <<"", "path", "to", "file.tif">>)
Targets ==
    {S3Target,
     Target("s3", "bucket", <<"", "top.tif">>),
     Target("https", "host", <<"", "dir", "img.tif">>),
     Target("http", "host", <<"", "img.tif">>),
     Target("ftp", "host", <<"", "pub", "x.tif">>)}

\* Where the redirect endpoint sends an href the world does not list.
DefaultTarget(href) == Target("s3", "bucket", <<"", "data", href \o ".tif">>)

DefaultSubdocs ==
    [h \in {"s1", "s2"} |-> IF h = "s1" THEN SubDoc("s1", Morning, 1)
                                          ELSE SubDoc("s2", NextDay, 1)]

World(pages, subdocs, redirects) ==
    [pages |-> pages, subdocs |-> subdocs, redirects |-> redirects]

NoRedirects == [h \in {} |-> NoTarget]

Water == <<"Water", "Woody Vegetation">>
NoData == <<"No Data">>

\* The "next" link of page p in a chain of n pages.
ChainLinks(p, n) == IF p < n THEN <<Link("next", p + 1)>> ELSE <<>>

(***************************************************************************)
(* Walk inputs: chains of up to MaxPages pages, up to MaxFeatures items a  *)
(* page, every item labelled Water or No Data and without source links.    *)
(***************************************************************************)
WalkItem(p, i, water) ==
    Item(ItemId(p, i), KeyPresent(IF water THEN Water ELSE NoData), <<>>, TRUE)

WalkWorlds ==
    UNION {
      { World([p \in 1..n |->
                 Page([i \in 1..Len(pat[p]) |-> WalkItem(p, i, pat[p][i])],
                      ChainLinks(p, n))],
              DefaultSubdocs, NoRedirects)
        : pat \in [1..n -> SeqUpTo(BOOLEAN, MaxFeatures)] }
      : n \in 1..MaxPages }

WalkInputs ==
    { [world |-> w, classes |-> c, cap |-> k] :
        w \in WalkWorlds,
        c \in {PySet({"Water"})},
        k \in {NoCap} \cup {Cap(j) : j \in 0..MaxCap} }

(***************************************************************************)
(* Link inputs: MaxPages + 1 pages of one item each, whose links vary:     *)
(* none, a null next, another relation first, two next links.              *)
(***************************************************************************)
PageLinkShapes(p, n) ==
    IF p >= n THEN {<<>>, <<NullLink("next")>>, <<Link("prev", p - 1)>>}
    ELSE {<<Link("next", p + 1)>>,
          <<NullLink("next"), Link("self", p), Link("next", p + 1)>>,
          <<Link("next", p + 1), Link("next", n)>>,
          <<NullLink("next")>>}

LinkWorlds ==
    LET n == MaxPages + 1 IN
    { World([p \in 1..n |->
               Page(<<Item(ItemId(p, 1), KeyAbsent, <<>>, TRUE)>>, shape[p])],
            DefaultSubdocs, NoRedirects)
      : shape \in {f \in [1..n -> UNION {PageLinkShapes(p, n) : p \in 1..n}] :
                     \A p \in 1..n : f[p] \in PageLinkShapes(p, n)} }

LinkInputs ==
    { [world |-> w, classes |-> PyNone, cap |-> k] :
        w \in LinkWorlds, k \in {NoCap, Cap(MaxCap)} }

(***************************************************************************)
(* Filter inputs: one page of one item; every labels value over the class  *)
(* names (absent, empty, one or two names) against every classes argument. *)
(***************************************************************************)
ClassNames == {"Water", "No Data", "Woody Vegetation"}

LabelValues ==
    {KeyAbsent} \cup
    {KeyPresent(s) : s \in {q \in SeqUpTo(ClassNames, 2) :
                              Len(q) = 2 => q[1] # q[2]}}

FilterInputs ==
    { [world |-> World(<<Page(<<Item(ItemId(1, 1), l, <<>>, TRUE)>>, <<>>)>>,
                       DefaultSubdocs, NoRedirects),
       classes |-> c, cap |-> NoCap] :
        l \in LabelValues,
        c \in {PyNone} \cup {PySet(S) : S \in SUBSET ClassNames} }

(***************************************************************************)
(* Expansion inputs: one page of two items; the first item's links and the *)
(* sub-item documents vary, the second item has no links.                  *)
(***************************************************************************)
ItemLinkShapes ==
    {<<>>,
     <<Link("source", "s1")>>,
     <<Link("derived_from", "s2"), Link("source", "s1"), Link("source", "s2")>>,
     <<Link("source", "s1"), Link("collection", "s1"), Link("source", "s1")>>}

ExpandWorlds ==
    { World(<<Page(<<Item(ItemId(1, 1), KeyAbsent, ls, has),
                     Item(ItemId(1, 2), KeyAbsent, <<>>, TRUE)>>, <<>>)>>,
            [h \in {"s1", "s2"} |-> IF h = "s1" THEN SubDoc("s1", Morning, n1)
                                                  ELSE SubDoc("s2", dt2, n2)],
            NoRedirects)
      : ls \in ItemLinkShapes, has \in BOOLEAN,
        n1 \in 0..MaxAssets, n2 \in 1..MaxAssets, dt2 \in {SameDay, NextDay} }

ExpandInputs ==
    { [world |-> w, classes |-> PyNone, cap |-> NoCap] : w \in ExpandWorlds }

(***************************************************************************)
(* Download inputs: one item with one sub-item of one asset; the redirect  *)
(* targets of the asset and of the label file vary over Targets.           *)
(***************************************************************************)
DownloadWorlds ==
    LET id == ItemId(1, 1)
        doc == SubDoc("s1", Morning, 1)
        hrefs == {doc.assets[1].href, LabelsHref(id)}
    IN { World(<<Page(<<Item(id, KeyAbsent, <<Link("source", "s1")>>, TRUE)>>, <<>>)>>,
               [h \in {"s1", "s2"} |-> doc], r)
         : r \in [hrefs -> Targets] }

DownloadInputs ==
    { [world |-> w, classes |-> PyNone, cap |-> Cap(1)] : w \in DownloadWorlds }

Inputs == WalkInputs \cup LinkInputs \cup FilterInputs \cup ExpandInputs
          \cup DownloadInputs

(***************************************************************************)
(* Local paths are sequences of components.                                *)
(***************************************************************************)
\* path = f'landcovernet/{item["id"]}/'
RootDir(id) == <<"landcovernet", id>>

\* os.path.join(path, name), name a relative component
PathJoin(path, name) == Append(path, name)

\* arrow.get(datetime).format('YYYY_MM_DD'): the date, without the time of day
FormatDate(dt) == dt.year \o "_" \o dt.month \o "_" \o dt.day

\* Makedirs that creates nothing.
MakedirsMutant(d, path) == d

\* os.makedirs(path): the directory and its missing parents
Makedirs(d, path) == d \cup {SubSeq(path, 1, k) : k \in 1..Len(path)}

(***************************************************************************)
(* get_items, lines 241-247: the class filter.                             *)
(***************************************************************************)
\* AnyLabelIn with the test inverted: every label has to be in classes.
RECURSIVE AnyLabelInMutant(_, _)
AnyLabelInMutant(labels, cls) ==
    IF labels = <<>> THEN TRUE
    ELSE IF Head(labels) \in cls THEN AnyLabelInMutant(Tail(labels), cls)
    ELSE FALSE

\* for label_class in labels: if label_class in classes: matches_class = True; break
RECURSIVE AnyLabelIn(_, _)
AnyLabelIn(labels, cls) ==
    IF labels = <<>> THEN FALSE
    ELSE IF Head(labels) \in cls THEN TRUE
    ELSE AnyLabelIn(Tail(labels), cls)

\* feature['properties'].get('labels', [])
LabelsOf(feature) == IF feature.labels.present THEN feature.labels.val ELSE <<>>

MatchesClass(feature, cls) ==
    IF cls.is_none THEN TRUE ELSE AnyLabelIn(LabelsOf(feature), cls.val)

(***************************************************************************)
(* The call stack of get_items.                                            *)
(***************************************************************************)
\* Frame with the counter of the nested call starting again at 0.
FrameMutant(uri, items_downloaded) ==
    [uri |-> uri, features |-> <<>>, links |-> <<>>, fi |-> 1, li |-> 1,
     items_downloaded |-> 0, pc |-> "get", followed |-> 0]

Frame(uri, items_downloaded) ==
    [uri |-> uri, features |-> <<>>, links |-> <<>>, fi |-> 1, li |-> 1,
     items_downloaded |-> items_downloaded, pc |-> "get", followed |-> 0]

Top == stack[Len(stack)]
SetTop(f) == [stack EXCEPT ![Len(stack)] = f]

\* LoopAt leaving the feature loop at once.
LoopAtMutant(f, fi) == [f EXCEPT !.fi = fi, !.pc = "links"]

\* The position after the feature loop has handled feature number fi - 1.
LoopAt(f, fi) ==
    [f EXCEPT !.fi = fi,
              !.pc = IF fi > Len(f.features) THEN "links" ELSE "features"]

(***************************************************************************)
(* The pool: one p.map job at a time, since p.map blocks its caller.       *)
(***************************************************************************)
NoJob == [func |-> "", tasks |-> <<>>, exc |-> ""]

Task(path, href) ==
    [path |-> path, href |-> href, pc |-> "queued", outcome |-> "",
     asset_path |-> <<>>, result |-> <<>>, target |-> NoTarget,
     s3_calls |-> 0, http_calls |-> 0, wrote |-> <<>>]

Job(func, tasks) == [func |-> func, tasks |-> tasks, exc |-> ""]

InFlight == Cardinality({i \in 1..Len(pool.tasks) :
                            pool.tasks[i].pc \notin {"queued", "done", "raised"}})

\* WorkerIdle of a pool that starts a thread for every task.
WorkerIdleMutant == TRUE

\* A worker thread of p is free to take a task from the queue.
WorkerIdle == InFlight < workers

Finished(t) == t.pc \in {"done", "raised"}
\* AllFinished of a map that does not wait for its tasks.
AllFinishedMutant == TRUE

AllFinished == \A i \in 1..Len(pool.tasks) : Finished(pool.tasks[i])

\* A task ends with an exception: p.map keeps the first one to re-raise it.
Raise(i, t, exc) ==
    [pool EXCEPT !.tasks[i] = [t EXCEPT !.pc = "raised"],
                 !.exc = IF pool.exc = "" THEN exc ELSE pool.exc]

NoFilter == [done |-> FALSE, labels |-> KeyAbsent, matched |-> FALSE]
NoExpand == [done |-> FALSE,
             item |-> Item("", KeyAbsent, <<>>, TRUE),
             outcomes |-> <<>>, results |-> <<>>]

\* The state when the first get_items call of a cell starts: the pool has
\* size workers, and the accumulator is an empty list, be it the downloads=[]
\* of the call or the default of the def, which no call has used yet.
Setup(ins, sizes, omits) ==
    /\ \E in \in ins :
         /\ world = in.world
         /\ classes = in.classes
         /\ max_items_downloaded = in.cap
    /\ workers \in sizes
    /\ omit_downloads \in omits
    /\ calls = 1
    /\ stack = <<Frame(1, 0)>>
    /\ downloads = <<>>
    /\ dirs = {}
    /\ files = {}
    /\ pool = NoJob
    /\ di = 1
    /\ pc = "walk"
    /\ error = ""
    /\ fetches = <<>>
    /\ expanded = <<>>
    /\ last_filter = NoFilter
    /\ last_expand = NoExpand

\* The notebook: p = ThreadPool(20), and every cell passes downloads=[].
Init == Setup(Inputs, {PoolSize}, {FALSE})

(***************************************************************************)
(* get_items, lines 236-238: request the page and decode it.               *)
(***************************************************************************)
GetPage ==
    /\ pc = "walk" /\ Top.pc = "get"
    /\ fetches' = Append(fetches, Top.uri)
    /\ \/ /\ Top.uri \in DOMAIN world.pages
          /\ LET page == world.pages[Top.uri]
                 f == [Top EXCEPT !.features = page.features,
                                  !.links = page.links]
             IN stack' = SetTop(LoopAt(f, 1))
          /\ UNCHANGED <<pc, error>>
       \/ \* requests.get or r.json() raises: nothing catches it
          /\ pc' = "raised"
          /\ error' = "CatalogFetchError"
          /\ UNCHANGED stack
    /\ UNCHANGED <<world, workers, omit_downloads, calls, classes,
                   max_items_downloaded, downloads, dirs, files,
                   pool, di, expanded, last_filter, last_expand>>

(***************************************************************************)
(* get_items, lines 239-251: a feature the filter rejects.                 *)
(***************************************************************************)
SkipFeature ==
    /\ pc = "walk" /\ Top.pc = "features"
    /\ LET feature == Top.features[Top.fi] IN
         /\ ~MatchesClass(feature, classes)
         /\ last_filter' = [done |-> TRUE, labels |-> feature.labels,
                            matched |-> FALSE]
    /\ stack' = SetTop(LoopAt(Top, Top.fi + 1))
    /\ UNCHANGED <<world, workers, omit_downloads, calls, classes,
                   max_items_downloaded, downloads, dirs, files,
                   pool, di, pc, error, fetches, expanded, last_expand>>

\* for link in links: if link['rel'] != 'source': continue
\* source_items.append((path, link['href']))
\* SourceItems without the test of rel.
SourceItemsMutant(path, links) ==
    [k \in 1..Len(links) |-> Task(path, links[k].href)]

SourceItems(path, links) ==
    LET src == SelectSeq(links, LAMBDA l : l.rel = "source")
    IN [k \in 1..Len(src) |-> Task(path, src[k].href)]

(***************************************************************************)
(* get_items, lines 239-255, and download_source_and_labels, lines         *)
(* 214-230: a feature the filter accepts is expanded; the root directory   *)
(* is made and the source links are handed to the pool.                    *)
(***************************************************************************)
BeginExpand ==
    /\ pc = "walk" /\ Top.pc = "features"
    /\ LET feature == Top.features[Top.fi]
           path == RootDir(feature.id)
       IN /\ MatchesClass(feature, classes)
          /\ last_filter' = [done |-> TRUE, labels |-> feature.labels,
                             matched |-> TRUE]
          /\ expanded' = Append(expanded, feature.id)
          /\ dirs' = IF path \in dirs THEN dirs ELSE Makedirs(dirs, path)
          /\ pool' = Job("get_source_item_assets",
                         SourceItems(path, feature.links))
    /\ pc' = "expand"
    /\ UNCHANGED <<world, workers, omit_downloads, calls, classes,
                   max_items_downloaded, stack, downloads, files,
                   di, error, fetches, last_expand>>

\* for key, asset in r.json()['assets'].items():
\*     asset_downloads.append((asset['href'], asset_path))
AssetDownloads(doc, asset_path) ==
    [k \in 1..Len(doc.assets) |-> [href |-> doc.assets[k].href, path |-> asset_path]]

\* dt = arrow.get(...).format('YYYY_MM_DD'); asset_path = os.path.join(path, dt)
\* AssetPath without the date directory.
AssetPathMutant(path, doc) == path

AssetPath(path, doc) == PathJoin(path, FormatDate(doc.datetime))

(***************************************************************************)
(* get_source_item_assets, lines 195-205, on a pool worker: request the    *)
(* sub-item document, name the date directory and test whether it exists.  *)
(***************************************************************************)
SubItemGet(i) ==
    /\ pc = "expand"
    /\ pool.tasks[i].pc = "queued"
    /\ WorkerIdle
    /\ LET t == pool.tasks[i]
           doc == world.subdocs[t.href]
           asset_path == AssetPath(t.path, doc)
       IN \/ \* requests.get raises: caught, the sub-item yields no task
             /\ pool' = [pool EXCEPT !.tasks[i] =
                           [t EXCEPT !.pc = "done", !.outcome = "exception"]]
          \/ \* an answer that is no sub-item document (HTTP 500): r.json() or
             \* the subscripts of line 203 raise outside the try
             /\ pool' = Raise(i, [t EXCEPT !.outcome = "undecodable"],
                              "SubItemDecodeError")
          \/ \* the document arrives and the directory is already there
             /\ asset_path \in dirs
             /\ pool' = [pool EXCEPT !.tasks[i] =
                           [t EXCEPT !.pc = "done", !.outcome = "ok",
                                     !.asset_path = asset_path,
                                     !.result = AssetDownloads(doc, asset_path)]]
          \/ \* the document arrives and the directory is missing
             /\ asset_path \notin dirs
             /\ pool' = [pool EXCEPT !.tasks[i] =
                           [t EXCEPT !.pc = "makedirs", !.outcome = "ok",
                                     !.asset_path = asset_path]]
    /\ UNCHANGED <<world, workers, omit_downloads, calls, classes,
                   max_items_downloaded, stack, downloads, dirs,
                   files, di, pc, error, fetches, expanded, last_filter,
                   last_expand>>

(***************************************************************************)
(* get_source_item_assets, lines 206-211: os.makedirs(asset_path), then    *)
(* one task per asset.  os.makedirs raises when the directory exists.      *)
(***************************************************************************)
SubItemMakedirs(i) ==
    /\ pc = "expand"
    /\ pool.tasks[i].pc = "makedirs"
    /\ LET t == pool.tasks[i]
           doc == world.subdocs[t.href]
       IN \/ /\ t.asset_path \notin dirs
             /\ dirs' = Makedirs(dirs, t.asset_path)
             /\ pool' = [pool EXCEPT !.tasks[i] =
                           [t EXCEPT !.pc = "done",
                                     !.result = AssetDownloads(doc, t.asset_path)]]
          \/ /\ t.asset_path \in dirs
             /\ pool' = Raise(i, t, "FileExistsError")
             /\ UNCHANGED dirs
    /\ UNCHANGED <<world, workers, omit_downloads, calls, classes,
                   max_items_downloaded, stack, downloads, files,
                   di, pc, error, fetches, expanded, last_filter, last_expand>>

\* results = p.map(...); results.append([(labels['href'], path)])
Results(tasks, labels, path) ==
    Append([k \in 1..Len(tasks) |-> tasks[k].result],
           <<[href |-> labels.href, path |-> path]>>)

\* if max_items_downloaded is not None and items_downloaded >= max_items_downloaded
\* CapReached without the test for None.
CapReachedMutant(items_downloaded, cap) == items_downloaded >= cap.val

CapReached(items_downloaded, cap) ==
    ~cap.is_none /\ items_downloaded >= cap.val

(***************************************************************************)
(* download_source_and_labels, lines 230-233, and get_items, lines         *)
(* 255-260: p.map returns or re-raises; the label task is appended, the    *)
(* batches are added to downloads, the counter is raised and the cap       *)
(* tested.                                                                 *)
(***************************************************************************)
EndExpand ==
    /\ pc = "expand"
    /\ AllFinished
    /\ LET feature == Top.features[Top.fi]
           path == RootDir(feature.id)
           labels == feature.assets_labels
           results == Results(pool.tasks, labels, path)
           n == Top.items_downloaded + 1
       IN \/ \* a worker raised: p.map re-raises in download_source_and_labels
             /\ pool.exc # ""
             /\ pc' = "raised"
             /\ error' = pool.exc
             /\ UNCHANGED <<stack, downloads, last_expand>>
          \/ \* item.get('assets').get('labels') is None: labels['href'] raises
             /\ pool.exc = ""
             /\ ~labels.present
             /\ pc' = "raised"
             /\ error' = "TypeError"
             /\ UNCHANGED <<stack, downloads, last_expand>>
          \/ /\ pool.exc = ""
             /\ labels.present
             /\ downloads' = downloads \o results
             /\ last_expand' = [done |-> TRUE, item |-> feature,
                                outcomes |-> [k \in 1..Len(pool.tasks) |->
                                                pool.tasks[k].outcome],
                                results |-> results]
             /\ stack' = SetTop(
                   IF CapReached(n, max_items_downloaded)
                   THEN [Top EXCEPT !.items_downloaded = n, !.pc = "return"]
                   ELSE LoopAt([Top EXCEPT !.items_downloaded = n], Top.fi + 1))
             /\ pc' = "walk"
             /\ UNCHANGED error
    /\ pool' = NoJob
    /\ UNCHANGED <<world, workers, omit_downloads, calls, classes,
                   max_items_downloaded, dirs, files, di,
                   fetches, expanded, last_filter>>

\* if link['rel'] == 'next' and link['href'] is not None
IsNext(link) == link.rel = "next" /\ ~link.null

(***************************************************************************)
(* get_items, lines 263-265: one turn of the loop over the page's links.   *)
(* A "next" link starts a nested get_items with this call's counter.       *)
(***************************************************************************)
LinkStep ==
    /\ pc = "walk" /\ Top.pc = "links"
    /\ \/ /\ Top.li > Len(Top.links)
          /\ stack' = SetTop([Top EXCEPT !.pc = "return"])
       \/ /\ Top.li <= Len(Top.links)
          /\ ~IsNext(Top.links[Top.li])
          /\ stack' = SetTop([Top EXCEPT !.li = Top.li + 1])
       \/ /\ Top.li <= Len(Top.links)
          /\ IsNext(Top.links[Top.li])
          /\ stack' = Append(SetTop([Top EXCEPT !.followed = Top.followed + 1]),
                             Frame(Top.links[Top.li].href, Top.items_downloaded))
    /\ UNCHANGED <<world, workers, omit_downloads, calls, classes,
                   max_items_downloaded, downloads, dirs, files,
                   pool, di, pc, error, fetches, expanded, last_filter,
                   last_expand>>

(***************************************************************************)
(* get_items, lines 260 and 267: return downloads.  A nested call returns  *)
(* into the caller's link loop, which drops the value; the outermost call  *)
(* returns to the cell, which starts the download loop.                    *)
(***************************************************************************)
Return ==
    /\ pc = "walk" /\ Top.pc = "return"
    /\ \/ /\ Len(stack) > 1
          /\ LET caller == stack[Len(stack) - 1]
             IN stack' = Append(SubSeq(stack, 1, Len(stack) - 2),
                                [caller EXCEPT !.li = caller.li + 1])
          /\ UNCHANGED pc
       \/ /\ Len(stack) = 1
          /\ pc' = "loop"
          /\ UNCHANGED stack
    /\ UNCHANGED <<world, workers, omit_downloads, calls, classes,
                   max_items_downloaded, downloads, dirs, files,
                   pool, di, error, fetches, expanded, last_filter, last_expand>>

(***************************************************************************)
(* The download loop, lines 289-290: for d in to_download: p.map(download, *)
(* d).  to_download is the list downloads.                                 *)
(***************************************************************************)
StartBatch ==
    /\ pc = "loop"
    /\ di <= Len(downloads)
    /\ pool' = Job("download",
                   [k \in 1..Len(downloads[di]) |->
                      Task(downloads[di][k].path, downloads[di][k].href)])
    /\ pc' = "download"
    /\ UNCHANGED <<world, workers, omit_downloads, calls, classes,
                   max_items_downloaded, stack, downloads, dirs,
                   files, di, error, fetches, expanded, last_filter, last_expand>>

\* The redirect endpoint's Location header for an href.
Location(href) ==
    IF href \in DOMAIN world.redirects THEN world.redirects[href]
    ELSE DefaultTarget(href)

(***************************************************************************)
(* download and get_download_uri, lines 179-187, on a pool worker.         *)
(***************************************************************************)
Resolve(i) ==
    /\ pc = "download"
    /\ pool.tasks[i].pc = "queued"
    /\ WorkerIdle
    /\ LET t == pool.tasks[i]
       IN \/ pool' = [pool EXCEPT !.tasks[i] =
                        [t EXCEPT !.pc = "resolved", !.outcome = "ok",
                                  !.target = Location(t.href)]]
          \/ \* the request fails
             pool' = Raise(i, [t EXCEPT !.outcome = "exception"],
                           "ResolutionError")
          \/ \* the answer has no Location header: r.headers['Location'] raises
             pool' = Raise(i, [t EXCEPT !.outcome = "no location"], "KeyError")
    /\ UNCHANGED <<world, workers, omit_downloads, calls, classes,
                   max_items_downloaded, stack, downloads, dirs,
                   files, di, pc, error, fetches, expanded, last_filter,
                   last_expand>>

\* download_s3: key = parsed.path[1:]; the file is named key.split('/')[-1]
S3FileName(target) == Last(Tail(target.path))

\* download_http: the file is named parsed.path.split('/')[-1]
HttpFileName(target) == Last(target.path)

\* if parsed.scheme in ['s3'] ... elif parsed.scheme in ['http', 'https']
\* Fetcher with a final else that takes the HTTP branch.
FetcherElseMutant(scheme) ==
    IF scheme \in {"s3"} THEN "s3" ELSE "http"

\* Fetcher with http sent to the s3 branch.
FetcherMutant(scheme) ==
    IF scheme \in {"s3", "http"} THEN "s3"
    ELSE IF scheme \in {"https"} THEN "http"
    ELSE ""

Fetcher(scheme) ==
    IF scheme \in {"s3"} THEN "s3"
    ELSE IF scheme \in {"http", "https"} THEN "http"
    ELSE ""

(***************************************************************************)
(* download, lines 189-192, with download_s3 and download_http, lines      *)
(* 164-177: the fetcher the scheme selects writes one file, or raises.     *)
(***************************************************************************)
Fetch(i) ==
    /\ pc = "download"
    /\ pool.tasks[i].pc = "resolved"
    /\ LET t == pool.tasks[i]
           f == Fetcher(t.target.scheme)
           u == [t EXCEPT !.s3_calls = IF f = "s3" THEN t.s3_calls + 1
                                       ELSE t.s3_calls,
                          !.http_calls = IF f = "http" THEN t.http_calls + 1
                                         ELSE t.http_calls]
           name == IF f = "s3" THEN S3FileName(t.target)
                   ELSE HttpFileName(t.target)
           file == PathJoin(t.path, name)
       IN \/ /\ f # ""
             /\ files' = files \cup {file}
             /\ pool' = [pool EXCEPT !.tasks[i] =
                           [u EXCEPT !.pc = "done", !.wrote = file]]
          \/ \* the transfer fails
             /\ f # ""
             /\ pool' = Raise(i, u, "FetchError")
             /\ UNCHANGED files
          \/ \* neither branch of download is taken
             /\ f = ""
             /\ pool' = [pool EXCEPT !.tasks[i] = [u EXCEPT !.pc = "done"]]
             /\ UNCHANGED files
    /\ UNCHANGED <<world, workers, omit_downloads, calls, classes,
                   max_items_downloaded, stack, downloads, dirs,
                   di, pc, error, fetches, expanded, last_filter, last_expand>>

(***************************************************************************)
(* The download loop, line 290: p.map returns once every task of the batch *)
(* has ended, and re-raises the first exception into the loop.             *)
(***************************************************************************)
EndBatch ==
    /\ pc = "download"
    /\ AllFinished
    /\ \/ /\ pool.exc = ""
          /\ di' = di + 1
          /\ pc' = "loop"
          /\ pool' = NoJob
          /\ UNCHANGED error
       \/ /\ pool.exc # ""
          /\ pc' = "raised"
          /\ error' = pool.exc
          /\ UNCHANGED <<pool, di>>
    /\ UNCHANGED <<world, workers, omit_downloads, calls, classes,
                   max_items_downloaded, stack, downloads, dirs,
                   files, fetches, expanded, last_filter, last_expand>>

\* The loop has run through to_download: the cell ends.
Finish ==
    /\ pc = "loop"
    /\ di > Len(downloads)
    /\ pc' = "done"
    /\ UNCHANGED <<world, workers, omit_downloads, calls, classes,
                   max_items_downloaded, stack, downloads, dirs,
                   files, pool, di, error, fetches, expanded, last_filter,
                   last_expand>>

Next ==
    \/ GetPage
    \/ SkipFeature
    \/ BeginExpand
    \/ \E i \in 1..Len(pool.tasks) : SubItemGet(i)
    \/ \E i \in 1..Len(pool.tasks) : SubItemMakedirs(i)
    \/ EndExpand
    \/ LinkStep
    \/ Return
    \/ StartBatch
    \/ \E i \in 1..Len(pool.tasks) : Resolve(i)
    \/ \E i \in 1..Len(pool.tasks) : Fetch(i)
    \/ EndBatch
    \/ Finish

Spec == Init /\ [][Next]_vars

\* The run ends: the cell has finished, or an exception reached the top.
Terminated == pc \in {"done", "raised"}

\* Each enabled step is eventually taken: the main thread and the pool's
\* workers keep running, and every request ends.
FairSpec == Spec /\ WF_vars(Next)

(***************************************************************************)
(* The pool with fewer workers than tasks.  Twenty workers are never all   *)
(* busy on the inputs above; PoolSpec runs the same program on pools of    *)
(* 1..MaxWorkers workers, where tasks have to wait for a free worker.      *)
(***************************************************************************)
PoolInputs == LinkInputs \cup FilterInputs \cup ExpandInputs \cup DownloadInputs

PoolInit == Setup(PoolInputs, 1..MaxWorkers, {FALSE})

PoolSpec == PoolInit /\ [][Next]_vars

(***************************************************************************)
(* A following cell calls get_items again, lines 309-312 and 333, with the *)
(* same arguments.  With downloads=[] the call gets a new list; without    *)
(* the argument it gets the list made by the def of line 235, which holds  *)
(* what earlier calls added.  The histories start again with the call.     *)
(***************************************************************************)
CallAgain ==
    /\ pc = "done"
    /\ calls < MaxCalls
    /\ calls' = calls + 1
    /\ downloads' = IF omit_downloads THEN downloads ELSE <<>>
    /\ stack' = <<Frame(1, 0)>>
    /\ pool' = NoJob
    /\ di' = 1
    /\ pc' = "walk"
    /\ fetches' = <<>>
    /\ expanded' = <<>>
    /\ last_filter' = NoFilter
    /\ last_expand' = NoExpand
    /\ UNCHANGED <<world, workers, omit_downloads, classes,
                   max_items_downloaded, dirs, files, error>>

NextCells == Next \/ CallAgain

\* The cells of the notebook, with or without the downloads argument.
CellsInit == Setup(Inputs, {PoolSize}, BOOLEAN)

CellsSpec == CellsInit /\ [][NextCells]_vars

(***************************************************************************)
(* What the properties speak of, stated without the operators of the walk. *)
(***************************************************************************)
Range(s) == {s[k] : k \in 1..Len(s)}

Count(s, x) == Cardinality({k \in 1..Len(s) : s[k] = x})

CapSet == ~max_items_downloaded.is_none

\* The links of a page that name a following page.
NextLinksOf(page) ==
    SelectSeq(page.links, LAMBDA l : l.rel = "next" /\ l.null = FALSE)

\* The pages form a chain: no page names two following pages.
IsChain == \A p \in DOMAIN world.pages : Len(NextLinksOf(world.pages[p])) <= 1

\* The pages of the chain that starts at page p, in order.
RECURSIVE ChainFrom(_)
ChainFrom(p) ==
    LET nxt == NextLinksOf(world.pages[p])
    IN IF nxt = <<>> THEN <<p>> ELSE <<p>> \o ChainFrom(nxt[1].href)

\* An item matches: classes is None, or one of its labels is in classes.
Matches(item) ==
    \/ classes.is_none
    \/ /\ item.labels.present
       /\ Range(item.labels.val) \cap classes.val # {}

\* The ids of the matching items of the pages ps, in traversal order.
RECURSIVE MatchingIds(_)
MatchingIds(ps) ==
    IF ps = <<>> THEN <<>>
    ELSE LET m == SelectSeq(world.pages[Head(ps)].features, Matches)
         IN [k \in 1..Len(m) |-> m[k].id] \o MatchingIds(Tail(ps))

\* The outermost get_items has returned its list to the cell.
WalkReturned == Len(stack) = 1 /\ stack[1].pc = "return" /\ pc # "walk"

\* The next step of the main thread requests a page.
AboutToFetch == pc = "walk" /\ Top.pc = "get"

\* C1: with a cap k set (k = 0 included), at most k items are expanded in
\* total, and once k items have been expanded no further page is requested.
CapEnforcement ==
    CapSet =>
      /\ Len(expanded) <= max_items_downloaded.val
      /\ (AboutToFetch /\ fetches # <<>>) =>
            Len(expanded) < max_items_downloaded.val

\* C2: the filter accepts an item iff classes is None or at least one of
\* the item's labels (none when the key is absent) is in classes.
FilterCorrect ==
    last_filter.done =>
      (last_filter.matched <=>
         \/ classes.is_none
         \/ \E l \in Range(IF last_filter.labels.present
                           THEN last_filter.labels.val ELSE <<>>) :
                l \in classes.val)

\* C2 witness: a second label, not the first, made the item match.
FilterCorrectWitness ==
    /\ last_filter.done /\ last_filter.matched
    /\ ~classes.is_none
    /\ last_filter.labels.present
    /\ Len(last_filter.labels.val) = 2
    /\ last_filter.labels.val[1] \notin classes.val
    /\ last_filter.labels.val[2] \in classes.val

\* The cap is set and as many items as it allows have been expanded.
CapHit == CapSet /\ Len(expanded) >= max_items_downloaded.val

\* The walk is over: get_items has returned or raised.
WalkEnded == pc \notin {"walk", "expand"}

\* C3 as stated: whenever get_items has returned from a chain of pages, it
\* has requested each page of the chain exactly once.
PaginationVisitsEveryPage ==
    (IsChain /\ WalkReturned) =>
       \A p \in Range(ChainFrom(1)) : Count(fetches, p) = 1

\* C3, amended: on a chain of pages get_items ends, requests no page twice,
\* and, when it returns without the cap having been reached, has requested
\* each page of the chain exactly once.
PaginationTermination ==
    /\ IsChain => <>WalkEnded
    /\ [](IsChain => \A p \in DOMAIN world.pages : Count(fetches, p) <= 1)
    /\ []((IsChain /\ WalkReturned /\ ~CapHit) =>
            \A p \in Range(ChainFrom(1)) : Count(fetches, p) = 1)

\* C3 witness: a chain of several pages walked to its end, the cap set but
\* not reached.
PaginationWitness ==
    /\ IsChain /\ WalkReturned /\ CapSet /\ ~CapHit
    /\ Len(ChainFrom(1)) >= 2
    /\ fetches = ChainFrom(1)
    /\ NextLinksOf(world.pages[Last(fetches)]) = <<>>

\* C4: no exception of a download task leaves p.map: the download loop is
\* never ended by one.
ExecutorFaultIsolation == ~(pc = "raised" /\ pool.func = "download")

\* C5: a sub-item whose document cannot be used contributes no task and
\* does not end the expansion or the walk.
SubItemFaultIsolation ==
    /\ error # "SubItemDecodeError"
    /\ last_expand.done =>
         \A k \in 1..Len(last_expand.outcomes) :
            last_expand.outcomes[k] # "ok" => last_expand.results[k] = <<>>

\* The source links of the item expanded last, in order.
LastSources == SelectSeq(last_expand.item.links, LAMBDA l : l.rel = "source")

\* The number of assets of the sub-items of LastSources[1..k] that were fetched.
RECURSIVE FetchedAssets(_)
FetchedAssets(k) ==
    IF k = 0 THEN 0
    ELSE FetchedAssets(k - 1) +
         (IF last_expand.outcomes[k] = "ok"
          THEN Len(world.subdocs[LastSources[k].href].assets) ELSE 0)

\* C6: an expansion returns one batch per source link, holding one task per
\* asset of the sub-item when it was fetched and none otherwise, and a last
\* batch holding the one label task: (assets of fetched sub-items) + 1 tasks.
ExpansionComplete ==
    last_expand.done =>
      LET r == last_expand.results
          n == Len(LastSources)
      IN /\ Len(r) = n + 1
         /\ Len(last_expand.outcomes) = n
         /\ \A k \in 1..n :
               LET a == world.subdocs[LastSources[k].href].assets
               IN [j \in 1..Len(r[k]) |-> r[k][j].href] =
                     IF last_expand.outcomes[k] = "ok"
                     THEN [j \in 1..Len(a) |-> a[j].href] ELSE <<>>
         /\ Len(r[n + 1]) = 1
         /\ r[n + 1][1].href = last_expand.item.assets_labels.href
         /\ Len(Flatten(r)) = FetchedAssets(n) + 1

\* C6 witness: an item with a link that is no source link, one sub-item that
\* failed to load and one fetched sub-item of two assets.
ExpansionCompleteWitness ==
    /\ last_expand.done
    /\ Len(last_expand.item.links) > Len(LastSources)
    /\ \E k \in 1..Len(last_expand.outcomes) :
          last_expand.outcomes[k] = "exception"
    /\ \E k \in 1..Len(last_expand.outcomes) :
          last_expand.outcomes[k] = "ok" /\ Len(last_expand.results[k]) = 2

\* The tasks of downloads that fetch a label file.
LabelTasks ==
    SelectSeq(Flatten(downloads), LAMBDA t : Len(t.path) = 2)

\* C7: without a cap, when get_items returns from a chain of pages it has
\* expanded exactly the matching items of the chain, each once and in
\* order, and the returned batches are those of these items only.
UncappedWalkComplete ==
    (~CapSet /\ IsChain /\ WalkReturned) =>
       LET m == MatchingIds(ChainFrom(1))
       IN /\ expanded = m
          /\ [k \in 1..Len(LabelTasks) |-> LabelTasks[k].href] =
                [k \in 1..Len(m) |-> LabelsHref(m[k])]
          /\ \A t \in Range(Flatten(downloads)) : t.path[2] \in Range(m)

\* C7 witness: two pages walked without a cap, an item that does not match
\* left out and an item of the second page expanded.
UncappedWalkWitness ==
    /\ ~CapSet /\ ~classes.is_none /\ IsChain /\ WalkReturned
    /\ Len(fetches) = 2
    /\ \E f \in Range(world.pages[1].features) : f.id \notin Range(expanded)
    /\ \E f \in Range(world.pages[2].features) : f.id \in Range(expanded)

\* C8: no call of get_items starts more than one nested call.
OneNextPerPage == \A k \in 1..Len(stack) : stack[k].followed <= 1

\* C9: in the batches of an expansion every sub-item task goes to the
\* directory <item root>/<YYYY_MM_DD> of the sub-item's date, which is not
\* the item root, and the label task goes to the item root.
DestinationDeterminism ==
    last_expand.done =>
      LET r == last_expand.results
          root == <<"landcovernet", last_expand.item.id>>
      IN /\ \A k \in 1..Len(r) - 1 : \A j \in 1..Len(r[k]) :
               LET d == world.subdocs[LastSources[k].href].datetime
               IN /\ r[k][j].path =
                        root \o <<d.year \o "_" \o d.month \o "_" \o d.day>>
                  /\ r[k][j].path # root
         /\ r[Len(r)][1].path = root

\* C9 witness: two sub-items captured on the same day at different times,
\* both fetched, their tasks bound for the same directory.
DestinationWitness ==
    /\ last_expand.done
    /\ Len(LastSources) = 2
    /\ LastSources[1].href # LastSources[2].href
    /\ world.subdocs[LastSources[1].href].datetime #
          world.subdocs[LastSources[2].href].datetime
    /\ last_expand.results[1] # <<>> /\ last_expand.results[2] # <<>>
    /\ last_expand.results[1][1].path = last_expand.results[2][1].path

\* C10: a download task resolved to an s3 target calls the object-storage
\* fetcher once and the HTTP fetcher never; one resolved to http or https
\* calls the HTTP fetcher once and the other never; the file written is
\* named after the last path segment and lies in the task's directory.
SchemeDispatch ==
    pool.func = "download" =>
      \A k \in 1..Len(pool.tasks) :
         LET t == pool.tasks[k]
             file == Append(t.path, t.target.path[Len(t.target.path)])
         IN (Finished(t) /\ t.outcome = "ok") =>
              /\ t.target.scheme = "s3" =>
                    /\ t.s3_calls = 1 /\ t.http_calls = 0
                    /\ t.pc = "done" => (t.wrote = file /\ file \in files)
              /\ t.target.scheme \in {"http", "https"} =>
                    /\ t.http_calls = 1 /\ t.s3_calls = 0
                    /\ t.pc = "done" => (t.wrote = file /\ file \in files)

\* C10 witness: s3://bucket/path/to/file.tif fetched into file.tif of the
\* task's directory.
SchemeDispatchWitness ==
    /\ pool.func = "download"
    /\ \E k \in 1..Len(pool.tasks) :
          /\ pool.tasks[k].pc = "done"
          /\ pool.tasks[k].target = S3Target
          /\ pool.tasks[k].wrote = Append(pool.tasks[k].path, "file.tif")
          /\ pool.tasks[k].wrote \in files

\* C11: two workers that create the same date directory both succeed: no
\* os.makedirs of a worker ends with "already exists".
ConcurrentMakedirsSafe ==
    /\ pool.exc # "FileExistsError"
    /\ error # "FileExistsError"

\* Every item of the catalog carries its assets.labels entry.
WellFormedCatalog ==
    \A p \in DOMAIN world.pages :
       \A f \in Range(world.pages[p].features) : f.assets_labels.present

\* C12: a failed page request ends the walk at that request, and no other
\* exception ends a walk: a walk over well-formed items that does not return
\* was ended by a page request.
CatalogFailureFatal ==
    /\ error = "CatalogFetchError" =>
          (pc = "raised" /\ pool = NoJob /\ Top.pc = "get"
           /\ Last(fetches) = Top.uri)
    /\ (WellFormedCatalog /\ pc = "raised" /\ pool.func # "download") =>
          error = "CatalogFetchError"

\* C13: a download task resolved to a scheme other than s3, http and https
\* ends without an exception, has called no fetcher and has written nothing.
UnknownSchemeSkipped ==
    pool.func = "download" =>
      \A k \in 1..Len(pool.tasks) :
         LET t == pool.tasks[k]
         IN (t.outcome = "ok" /\ t.pc # "queued"
             /\ t.target.scheme \notin {"s3", "http", "https"}) =>
              /\ t.pc \in {"resolved", "done"}
              /\ t.s3_calls = 0 /\ t.http_calls = 0
              /\ t.wrote = <<>>
              /\ \A f \in files : f # Append(t.path, Last(t.target.path))

\* C13 witness: a task resolved to an ftp target has ended.
UnknownSchemeWitness ==
    /\ pool.func = "download"
    /\ \E k \in 1..Len(pool.tasks) :
          /\ pool.tasks[k].pc = "done"
          /\ pool.tasks[k].target.scheme = "ftp"

\* C14: the directory of every task handed to the download loop exists, and
\* so does the directory of every file a fetcher has written.
DirectoryBeforeWrite ==
    /\ \A t \in Range(Flatten(downloads)) : t.path \in dirs
    /\ pool.func = "download" =>
          \A k \in 1..Len(pool.tasks) : pool.tasks[k].path \in dirs
    /\ \A f \in files : SubSeq(f, 1, Len(f) - 1) \in dirs

\* C14 witness: a file written into a date directory and one into an item
\* root.
DirectoryBeforeWriteWitness ==
    /\ \E f \in files : Len(f) = 4
    /\ \E f \in files : Len(f) = 3

\* C17: on a chain of pages the counter a nested call starts with is the
\* number of items expanded so far, and a walk with cap k >= 1 over at least
\* k matching items returns having expanded exactly the first k of them in
\* traversal order.
CappedWalkPrefix ==
    LET m == MatchingIds(ChainFrom(1))
        k == max_items_downloaded.val
    IN /\ (IsChain /\ AboutToFetch) => Top.items_downloaded = Len(expanded)
       /\ (CapSet /\ k >= 1 /\ IsChain /\ WalkReturned /\ Len(m) >= k) =>
             expanded = SubSeq(m, 1, k)

\* C17 witness: cap 2 reached on the second page of a chain that holds more
\* than two matching items.
CappedWalkWitness ==
    /\ CapSet /\ max_items_downloaded.val = 2
    /\ IsChain /\ WalkReturned
    /\ Len(MatchingIds(ChainFrom(1))) > 2
    /\ fetches = <<1, 2>>
    /\ Len(expanded) = 2
    /\ expanded[2] \in {f.id : f \in Range(world.pages[2].features)}

\* C18: the tasks on the pool during the download loop are those of the
\* batch the loop is at, no task is on the pool between two batches, and
\* the loop moves to the next batch only when every task of the batch has
\* ended.
BatchesInTurn ==
    /\ [](pc = "download" =>
            /\ di <= Len(downloads)
            /\ [k \in 1..Len(pool.tasks) |->
                  [href |-> pool.tasks[k].href, path |-> pool.tasks[k].path]]
                 = downloads[di])
    /\ [](pc = "loop" => pool.tasks = <<>>)
    /\ [][(pc = "download" /\ (di' # di \/ pc' # "download")) =>
            \A k \in 1..Len(pool.tasks) :
               pool.tasks[k].pc \in {"done", "raised"}]_vars

\* C18 witness: the two tasks of the second batch run at the same time.
BatchesInTurnWitness ==
    /\ pc = "download" /\ di = 2
    /\ Len(pool.tasks) = 2
    /\ pool.tasks[1].pc = "resolved" /\ pool.tasks[2].pc = "resolved"

\* The tasks a worker thread of p is running.
Running == {k \in 1..Len(pool.tasks) :
              pool.tasks[k].pc \in {"makedirs", "resolved"}}

\* C15: at no moment are more tasks running on the pool than it has worker
\* threads.
BoundedConcurrency == Cardinality(Running) <= workers

\* C15 witness: every worker is busy and a task waits for one.
BoundedConcurrencyWitness ==
    /\ Cardinality(Running) = workers
    /\ \E k \in 1..Len(pool.tasks) : pool.tasks[k].pc = "queued"

\* C16: the list a get_items call returns holds the batches of the items
\* expanded during that call and no others, with or without the downloads
\* argument.
WalkIndependence ==
    WalkReturned =>
       [k \in 1..Len(LabelTasks) |-> LabelTasks[k].href] =
          [k \in 1..Len(expanded) |-> LabelsHref(expanded[k])]
====
